---- MODULE Spec2Model ----
(***************************************************************************)
(* pulseaudio-dlna streaming server: pulseaudio_dlna/upnp/server.py.       *)
(*                                                                         *)
(* Request threads (StreamRequestHandler) resolve a path, look the stream  *)
(* up in the StreamManager and register their socket on a ProcessStream.   *)
(* Each ProcessStream owns an UpdateThread that calls communicate() while  *)
(* is_running holds and parks on its own lock otherwise.                   *)
(***************************************************************************)
EXTENDS Integers, Sequences, FiniteSets, TLC

\* ------------------------------------------------------------- bounds
NumReq == 2        \* request threads, each with one live socket at a time
MaxStreams == 2    \* ProcessStream objects ever constructed
NumGen == 2        \* process pair numbers, reused cyclically
MaxPathLen == 5    \* characters of a request path
MaxList == 2       \* entries of server.bridges / server.encoders

Requests == 1..NumReq
Chars == {"/", ".", "a"}

Min(S) == CHOOSE x \in S : \A y \in S : x <= y

SeqsUpTo(S, n) == UNION {[1..k -> S] : k \in 0..n}

\* every order in which the members of a set can be listed
Orders(S) == {o \in [1..Cardinality(S) -> S] : \A i, j \in DOMAIN o : o[i] = o[j] => i = j}

AllPaths == SeqsUpTo(Chars, MaxPathLen)

\* With the devices "a" and "m" and the encoder suffix "m" of a running
\* server, "/a.m" and "/m.m" resolve and "/a.a" does not.
StreamPath == <<"/", "a", ".", "m">>
RegistryPaths == { StreamPath, <<"/", "m", ".", "m">>, <<"/", "a", ".", "a">> }

\* the devices and encoders handle_headers is tried with: two names, two
\* encoders of one suffix, one of another
BridgePool == { [short_name |-> <<"a">>], [short_name |-> <<"a", "a">>] }
EncoderPool == { [suffix |-> <<"a">>, mime_type |-> "audio/mpeg"],
                 [suffix |-> <<"a">>, mime_type |-> "audio/mp3"],
                 [suffix |-> <<"a", "a">>, mime_type |-> "audio/aac"] }

VARIABLES
    bridges,          \* StreamServer.bridges
    encoders,         \* StreamServer.encoders
    streams,          \* StreamManager.streams: path -> index into process_streams
    process_streams,  \* the ProcessStream objects, in order of construction
    rpc,              \* where each request thread stands
    rpath,            \* self.path of a GET on its way through get_stream
    rstream,          \* the stream get_stream returned to the thread (0: none)
    sock_open,        \* the thread's socket object is not closed
    resp,             \* the answer handle_headers has just sent (history)
    last,             \* summary of the tick just performed (history)
    sent,             \* what that tick wrote to each socket (history)
    ssdp,             \* an SSDP header text and what the ssdp functions made of it
    peer_gone         \* the sockets whose client has closed its end

vars == <<bridges, encoders, streams, process_streams, rpc, rpath, rstream,
          sock_open, resp, last, sent, ssdp, peer_gone>>

\* no SSDP header handled yet
NoSsdp == [called |-> "none", lines |-> <<>>, header |-> <<>>, map |-> <<>>,
           id |-> <<>>]

\* -------------------------------------------------- request resolution

\* re.findall(r"/(.*?)\.(.*)", path): the matches, of which only [0] is used.
\* The pattern is searched for, not anchored: the match starts at the first
\* "/" that has a "." after it, the name runs to the first such ".".
findall(path) ==
    LET starts == {i \in 1..Len(path) :
                      path[i] = "/" /\ \E j \in (i+1)..Len(path) : path[j] = "."}
    IN IF starts = {} THEN <<>>
       ELSE LET i == Min(starts)
                j == Min({k \in (i+1)..Len(path) : path[k] = "."})
            IN << <<SubSeq(path, i+1, j-1), SubSeq(path, j+1, Len(path))>> >>

\* The value a "for x in xs: if hit(x): chosen = x; break" loop leaves in x:
\* the first hit, else the last element (0 stands for None / unbound).
LoopVar(hits, n) == IF hits # {} THEN Min(hits) ELSE n

chop_request_path(path, bs, es) ==
    LET m == findall(path)
    IN IF m = <<>> THEN <<0, 0>>
       ELSE LET short_name == m[1][1]
                suffix == m[1][2]
                ehits == {k \in 1..Len(es) : es[k].suffix = suffix}
                bhits == {k \in 1..Len(bs) : short_name = bs[k].short_name}
                choosen_encoder == IF ehits = {} THEN 0 ELSE Min(ehits)
                choosen_bridge == IF bhits = {} THEN 0 ELSE Min(bhits)
                encoder == LoopVar(ehits, Len(es))
                bridge == LoopVar(bhits, Len(bs))
            IN IF choosen_bridge # 0 /\ choosen_encoder # 0
               THEN <<bridge, encoder>>
               ELSE <<0, 0>>

handle_headers(path, bs, es) ==
    LET c == chop_request_path(path, bs, es)
    IN IF c[2] # 0 /\ c[1] # 0
       THEN [status |-> 200, content_type |-> es[c[2]].mime_type,
             bridge |-> c[1], encoder |-> c[2]]
       ELSE [status |-> 404, content_type |-> "text/html",
             bridge |-> 0, encoder |-> 0]

NoResponse == [r |-> 0, method |-> "none", path |-> <<>>, status |-> 0,
               content_type |-> "none", bridge |-> 0, encoder |-> 0]

Response(r, method, path, h) ==
    [r |-> r, method |-> method, path |-> path, status |-> h.status,
     content_type |-> h.content_type, bridge |-> h.bridge, encoder |-> h.encoder]

\* ------------------------------------------------------- ProcessStream

\* a chunk read from an encoder: the process it came from, and whether the
\* read returned nothing (end of stream)
NoData == [gen |-> 0, empty |-> TRUE]

NoTick == [p |-> 0, kind |-> "none", tracked |-> {}, failed |-> {},
           closed_again |-> {},
           restart |-> FALSE, had_clients |-> FALSE, armed |-> FALSE,
           old_enc |-> 0, src |-> 0, src_alive |-> FALSE]

NoSent == [p |-> 0, w |-> {}, data |-> NoData, got |-> <<>>, send_failed |-> {}]

\* ProcessStream.__init__ with its UpdateThread: no processes, no sockets,
\* the thread's own lock taken, is_running True, the thread started.
\* armed is history: a register took client_count from zero and no tick has
\* completed since. atexit_ran: the shutdown registered with atexit has run.
NewProcessStream(path) ==
    [path |-> path,
     recorder_process |-> 0, encoder_process |-> 0,
     rec_alive |-> FALSE, enc_alive |-> FALSE,
     sockets |-> {}, client_count |-> 0,
     lock |-> 0,
     is_running |-> TRUE, ut_lock |-> TRUE, ut_pc |-> "test",
     armed |-> FALSE, atexit_ran |-> FALSE]

Tracked == UNION {process_streams[p].sockets : p \in DOMAIN process_streams}

do_processes_exist(s) == s.encoder_process # 0 /\ s.recorder_process # 0

\* poll() of both: a process that has exited or was killed answers
do_processes_respond_recorder_only(s) == s.rec_alive

do_processes_respond(s) == s.rec_alive /\ s.enc_alive

\* kill both; killing None or a process already gone is swallowed
cleanup(s) == [s EXCEPT !.enc_alive = FALSE, !.rec_alive = FALSE]

\* Popen the recorder, then the encoder; either Popen may raise OSError
create_processes(s, outcome) ==
    LET gen == (s.recorder_process % NumGen) + 1
    IN CASE outcome = "ok" ->
              [s EXCEPT !.recorder_process = gen, !.rec_alive = TRUE,
                        !.encoder_process = gen, !.enc_alive = TRUE]
         [] outcome = "recorder_fails" -> s
         [] outcome = "encoder_fails" ->
              [s EXCEPT !.recorder_process = gen, !.rec_alive = TRUE]

pause(s) == [s EXCEPT !.is_running = FALSE]

\* UpdateThread.resume: releasing a lock nobody holds raises
resume(s) ==
    IF s.is_running = FALSE
    THEN [s |-> [s EXCEPT !.is_running = TRUE, !.ut_lock = FALSE],
          raised |-> ~s.ut_lock]
    ELSE [s |-> s, raised |-> FALSE]

\* unregister(sock, lock_override=True): t carries the stream, the sockets
\* closed so far and whether sys.exit was reached
unregister(t, sock) ==
    IF sock \in t.s.sockets
    THEN LET a == [t EXCEPT !.s.sockets = @ \ {sock},
                            !.closed = @ \cup {sock},
                            !.s.client_count = @ - 1]
         IN IF a.s.sockets = {}
            THEN [a EXCEPT !.s = cleanup(pause(a.s))]
            ELSE a
    ELSE [t EXCEPT !.exited = TRUE]

\* the first two steps of communicate: lazy start, restart of a dead pair
HealthCheck_no_restart(s, outcome) ==
    IF ~do_processes_exist(s) THEN create_processes(s, outcome) ELSE s

HealthCheck(s, outcome) ==
    LET s1 == IF ~do_processes_exist(s) THEN create_processes(s, outcome) ELSE s
    IN IF ~do_processes_exist(s) /\ outcome # "ok"
       THEN s1      \* create_processes has raised
       ELSE IF ~do_processes_respond(s1)
            THEN create_processes(cleanup(s1), outcome)
            ELSE s1

\* whether HealthCheck calls create_processes at all
Spawns(s) == ~do_processes_exist(s) \/ ~do_processes_respond(s)

\* _send_data: how much of bytes the socket took and whether a send raised.
\* fail: "ok", "error" (the first send raises), "cut" (a later send raises).
\* With nothing to send the loop body never runs.
_send_data_first_only(bytes, fail) ==
    IF bytes.empty THEN [sent |-> "all", error |-> FALSE]
    ELSE [sent |-> IF fail = "error" THEN "none" ELSE "part", error |-> fail # "ok"]

_send_data(bytes, fail) ==
    IF bytes.empty THEN [sent |-> "all", error |-> FALSE]
    ELSE CASE fail = "ok" -> [sent |-> "all", error |-> FALSE]
           [] fail = "error" -> [sent |-> "none", error |-> TRUE]
           [] fail = "cut" -> [sent |-> "part", error |-> TRUE]

\* select raised: probe each socket, unregister the ones that raise
RECURSIVE ProbeLoop(_, _, _)
ProbeLoop(t, socks, open) ==
    IF socks = <<>> THEN t
    ELSE ProbeLoop(IF open[Head(socks)] THEN t ELSE unregister(t, Head(socks)),
                   Tail(socks), open)

\* for sock in w: _send_data, unregister on socket.error
RECURSIVE WriteLoop(_, _, _, _)
WriteLoop(t, w, data, io) ==
    IF w = <<>> THEN t
    ELSE LET sock == Head(w)
             res == _send_data(data, io[sock].w)
             t1 == [t EXCEPT !.got[sock] = [data |-> data, sent |-> res.sent]]
         IN WriteLoop(IF res.error THEN unregister(t1, sock) ELSE t1,
                      Tail(w), data, io)

\* for sock in r: if still tracked, recv; nothing read or socket.error
\* unregisters
RECURSIVE ReadLoop(_, _, _)
ReadLoop(t, r, io) ==
    IF r = <<>> THEN t
    ELSE LET sock == Head(r)
         IN ReadLoop(IF sock \in t.s.sockets /\ io[sock].r = "fail"
                     THEN unregister(t, sock) ELSE t,
                     Tail(r), io)

Restrict(o, S) == SelectSeq(o, LAMBDA x : x \in S)

\* What select and the socket calls of one tick can do to one socket:
\* w: not reported writable, or writable and the sends go through, or the
\*    first send raises, or a later one does;
\* r: "fail" is reported readable with recv raising or returning nothing,
\*    "no" is not reported readable, or readable with bytes to read.
IOChoices(empty) ==
    [w : IF empty THEN {"no", "ok"} ELSE {"no", "ok", "error", "cut"},
     r : {"no", "fail"}]

\* ------------------------------------------------------------- Init

InitCommon ==
    /\ streams = <<>>
    /\ process_streams = <<>>
    /\ rpc = [r \in Requests |-> "idle"]
    /\ rpath = [r \in Requests |-> <<>>]
    /\ rstream = [r \in Requests |-> 0]
    /\ sock_open = [r \in Requests |-> TRUE]
    /\ resp = NoResponse
    /\ last = NoTick
    /\ sent = NoSent
    /\ ssdp = NoSsdp
    /\ peer_gone = {}

\* ------------------------------------------------- request threads
\* A thread is "idle" when it holds a freshly accepted connection whose
\* request has not been handled yet.

\* do_HEAD: handle_headers and nothing else; the server closes the
\* connection and the thread takes the next one
do_HEAD(r, paths) ==
    /\ rpc[r] = "idle"
    /\ \E path \in paths :
          resp' = Response(r, "HEAD", path, handle_headers(path, bridges, encoders))
    /\ last' = NoTick
    /\ sent' = NoSent
    /\ UNCHANGED ssdp
    /\ UNCHANGED peer_gone
    /\ UNCHANGED <<bridges, encoders, streams, process_streams, rpc, rpath,
                   rstream, sock_open>>

\* do_GET up to the call of get_stream
do_GET(r, paths) ==
    /\ rpc[r] = "idle"
    /\ \E path \in paths :
          LET h == handle_headers(path, bridges, encoders)
              found == h.bridge # 0 /\ h.encoder # 0
          IN /\ resp' = Response(r, "GET", path, h)
             /\ rpc' = [rpc EXCEPT ![r] = IF found THEN "get_stream" ELSE "idle"]
             /\ rpath' = [rpath EXCEPT ![r] = IF found THEN path ELSE <<>>]
    /\ last' = NoTick
    /\ sent' = NoSent
    /\ UNCHANGED ssdp
    /\ UNCHANGED peer_gone
    /\ UNCHANGED <<bridges, encoders, streams, process_streams, rstream, sock_open>>

\* StreamManager.get_stream, the test "path not in self.streams"
get_stream(r) ==
    /\ rpc[r] = "get_stream"
    /\ IF rpath[r] \in DOMAIN streams
       THEN /\ rstream' = [rstream EXCEPT ![r] = streams[rpath[r]]]
            /\ rpc' = [rpc EXCEPT ![r] = "register"]
            /\ rpath' = [rpath EXCEPT ![r] = <<>>]
       ELSE /\ rpc' = [rpc EXCEPT ![r] = "construct"]
            /\ UNCHANGED <<rstream, rpath>>
    /\ resp' = NoResponse
    /\ last' = NoTick
    /\ sent' = NoSent
    /\ UNCHANGED ssdp
    /\ UNCHANGED peer_gone
    /\ UNCHANGED <<bridges, encoders, streams, process_streams, sock_open>>

\* StreamManager.get_stream, the branch that constructs and stores a stream
get_stream_store(r) ==
    /\ rpc[r] = "construct"
    /\ Len(process_streams) < MaxStreams
    /\ LET new == Len(process_streams) + 1
           path == rpath[r]
       IN /\ process_streams' = Append(process_streams, NewProcessStream(path))
          /\ streams' = [q \in DOMAIN streams \cup {path} |->
                            IF q = path THEN new ELSE streams[q]]
          /\ rstream' = [rstream EXCEPT ![r] = new]
    /\ rpc' = [rpc EXCEPT ![r] = "register"]
    /\ rpath' = [rpath EXCEPT ![r] = <<>>]
    /\ resp' = NoResponse
    /\ last' = NoTick
    /\ sent' = NoSent
    /\ UNCHANGED ssdp
    /\ UNCHANGED peer_gone
    /\ UNCHANGED <<bridges, encoders, sock_open>>

\* register up to "self.sockets[sock] = device": the acquire of the stream's
\* lock and the insertion
register_insert_unlocked(s, r) ==
    [s EXCEPT !.sockets = @ \cup {r}]

register_insert(s, r) ==
    [s EXCEPT !.lock = r, !.sockets = @ \cup {r}]

\* register: the membership test, then either the locked insertion or sys.exit
register(r) ==
    /\ rpc[r] = "register"
    /\ LET p == rstream[r]
           s == process_streams[p]
       IN IF r \notin s.sockets
          THEN /\ s.lock = 0
               /\ process_streams' = [process_streams EXCEPT ![p] = register_insert(s, r)]
               /\ rpc' = [rpc EXCEPT ![r] = "registering"]
               /\ UNCHANGED sock_open
          ELSE /\ rpc' = [rpc EXCEPT ![r] = "sys_exit"]
               /\ sock_open' = [sock_open EXCEPT ![r] = FALSE]
               /\ UNCHANGED process_streams
    /\ resp' = NoResponse
    /\ last' = NoTick
    /\ sent' = NoSent
    /\ UNCHANGED ssdp
    /\ UNCHANGED peer_gone
    /\ UNCHANGED <<bridges, encoders, streams, rpath, rstream>>

\* the rest of register under the lock: the count and resume
register_count(s) ==
    resume([s EXCEPT !.client_count = @ + 1,
                     !.armed = @ \/ (s.client_count = 0)])

\* register from the count to the release in "finally"; an exception of
\* resume ends the request, and the server closes the socket
register_finish(r) ==
    /\ rpc[r] = "registering"
    /\ LET p == rstream[r]
           res == register_count(process_streams[p])
       IN /\ process_streams' = [process_streams EXCEPT ![p] = [res.s EXCEPT !.lock = 0]]
          /\ rpc' = [rpc EXCEPT ![r] = IF res.raised THEN "raised" ELSE "alive"]
          /\ sock_open' = [sock_open EXCEPT ![r] = @ /\ ~res.raised]
    /\ resp' = NoResponse
    /\ last' = NoTick
    /\ sent' = NoSent
    /\ UNCHANGED ssdp
    /\ UNCHANGED peer_gone
    /\ UNCHANGED <<bridges, encoders, streams, rpath, rstream>>

\* keep_connection_alive: the loop ends when select on the socket raises,
\* which a closed socket does. With close_connection = 0 the handler goes on
\* to a further request: of the next connection when the socket has been
\* unregistered, of this same connection while a stream still tracks it.
keep_connection_alive(r) ==
    /\ rpc[r] = "alive"
    /\ ~sock_open[r]
    /\ rpc' = [rpc EXCEPT ![r] = "idle"]
    /\ rstream' = [rstream EXCEPT ![r] = 0]
    /\ sock_open' = [sock_open EXCEPT ![r] = r \notin Tracked]
    /\ peer_gone' = IF r \notin Tracked THEN peer_gone \ {r} ELSE peer_gone
    /\ resp' = NoResponse
    /\ last' = NoTick
    /\ sent' = NoSent
    /\ UNCHANGED ssdp
    /\ UNCHANGED <<bridges, encoders, streams, process_streams, rpath>>

\* a thread whose request ended with an exception, or whose connection was
\* closed under it, takes the next connection once its closed socket is
\* tracked nowhere
accept(r) ==
    /\ rpc[r] \in {"raised", "sys_exit", "idle"}
    /\ ~sock_open[r]
    /\ r \notin Tracked
    /\ rpc' = [rpc EXCEPT ![r] = "idle"]
    /\ rstream' = [rstream EXCEPT ![r] = 0]
    /\ sock_open' = [sock_open EXCEPT ![r] = TRUE]
    /\ peer_gone' = peer_gone \ {r}
    /\ resp' = NoResponse
    /\ last' = NoTick
    /\ sent' = NoSent
    /\ UNCHANGED ssdp
    /\ UNCHANGED <<bridges, encoders, streams, process_streams, rpath>>

\* ----------------------------------------------------- environment

\* the recorder or the encoder process exits or is killed from outside
process_exit(p) ==
    /\ \/ /\ process_streams[p].rec_alive
          /\ process_streams' = [process_streams EXCEPT ![p].rec_alive = FALSE]
       \/ /\ process_streams[p].enc_alive
          /\ process_streams' = [process_streams EXCEPT ![p].enc_alive = FALSE]
    /\ resp' = NoResponse
    /\ last' = NoTick
    /\ sent' = NoSent
    /\ UNCHANGED ssdp
    /\ UNCHANGED peer_gone
    /\ UNCHANGED <<bridges, encoders, streams, rpc, rpath, rstream, sock_open>>

\* ProcessStream.shutdown, the atexit hook: close every tracked socket, with
\* no lock taken and nothing removed from self.sockets; the daemon
\* UpdateThread and the request threads may still be running
shutdown(p) ==
    /\ ~process_streams[p].atexit_ran
    /\ process_streams' = [process_streams EXCEPT ![p].atexit_ran = TRUE]
    /\ sock_open' = [x \in Requests |->
                        sock_open[x] /\ x \notin process_streams[p].sockets]
    /\ last' = [NoTick EXCEPT !.p = p, !.kind = "shutdown",
                              !.tracked = process_streams[p].sockets,
                              !.closed_again = {x \in process_streams[p].sockets :
                                                  ~sock_open[x]}]
    /\ resp' = NoResponse
    /\ sent' = NoSent
    /\ UNCHANGED ssdp
    /\ UNCHANGED peer_gone
    /\ UNCHANGED <<bridges, encoders, streams, rpc, rpath, rstream>>

\* ---------------------------------------------------- UpdateThread

\* run: is_running is False, go on to acquire the thread's lock
run_paused(p) ==
    /\ process_streams[p].ut_pc = "test"
    /\ ~process_streams[p].is_running
    /\ process_streams' = [process_streams EXCEPT ![p].ut_pc = "acquire"]
    /\ resp' = NoResponse
    /\ last' = NoTick
    /\ sent' = NoSent
    /\ UNCHANGED ssdp
    /\ UNCHANGED peer_gone
    /\ UNCHANGED <<bridges, encoders, streams, rpc, rpath, rstream, sock_open>>

\* run: self.lock.acquire() returns once the lock is free
run_acquire(p) ==
    /\ process_streams[p].ut_pc = "acquire"
    /\ ~process_streams[p].ut_lock
    /\ process_streams' = [process_streams EXCEPT ![p].ut_pc = "test",
                                                  ![p].ut_lock = TRUE]
    /\ resp' = NoResponse
    /\ last' = NoTick
    /\ sent' = NoSent
    /\ UNCHANGED ssdp
    /\ UNCHANGED peer_gone
    /\ UNCHANGED <<bridges, encoders, streams, rpc, rpath, rstream, sock_open>>

\* run has found is_running True and communicate gets the stream's lock
TickStart(s) == s.ut_pc = "test" /\ s.is_running /\ s.lock = 0

\* the summary of a tick of stream p that started in s and read from s1
TickRecord(p, s, s1, kind) ==
    [NoTick EXCEPT !.p = p, !.kind = kind, !.tracked = s.sockets,
                   !.restart = do_processes_exist(s) /\ ~do_processes_respond(s),
                   !.had_clients = s.client_count > 0,
                   !.armed = s.armed,
                   !.old_enc = s.encoder_process,
                   !.src = s1.encoder_process,
                   !.src_alive = s1.enc_alive]

\* what the tick leaves behind: the stream with its lock released, the
\* sockets it closed, the histories
TickEnd(p, t, rec, snt) ==
    /\ process_streams' = [process_streams EXCEPT ![p] =
           [t.s EXCEPT !.armed = FALSE,
                       !.ut_pc = IF t.exited THEN "dead" ELSE "test"]]
    /\ sock_open' = [x \in Requests |-> sock_open[x] /\ x \notin t.closed]
    /\ last' = [rec EXCEPT !.closed_again = {x \in t.closed : ~sock_open[x]}]
    /\ sent' = snt
    /\ UNCHANGED ssdp
    /\ UNCHANGED peer_gone
    /\ resp' = NoResponse
    /\ UNCHANGED <<bridges, encoders, streams, rpc, rpath, rstream>>

\* the sockets of the write loop: those select reported writable
Writable(socks, io) == {x \in socks : io[x].w # "no"}

\* the sockets of the read loop: those select reported readable
Readable_none(socks, io) == {}

Readable(socks, io) == {x \in socks : io[x].r # "no"}

\* data = self.encoder_process.stdout.read(self.chunk_size): a chunk, or
\* nothing when the encoder has closed its output
Chunk(s, empty) == [gen |-> s.encoder_process, empty |-> empty]

\* communicate, run to its end under the stream's lock. observe says
\* whether the history of what was written is kept.
communicate(p, observe) ==
    LET s == process_streams[p]
        s1 == HealthCheck(s, "ok")
        socks == s1.sockets
        t0 == [s |-> s1, closed |-> {}, exited |-> FALSE,
               got |-> [x \in socks |-> [data |-> NoData, sent |-> "none"]]]
        rec == TickRecord(p, s, s1, "io")
    IN /\ TickStart(s)
       /\ \E order \in Orders(socks) :
            IF \E x \in socks : ~sock_open[x]
            THEN \* select raises socket.error: probe, unregister, return
                 TickEnd(p, ProbeLoop(t0, order, sock_open),
                         [rec EXCEPT !.kind = "select_error"], NoSent)
            ELSE \E empty \in BOOLEAN :
                 \E io \in {f \in [socks -> IOChoices(empty)] :
                              \A x \in socks \cap peer_gone : f[x].r = "fail"} :
                    LET data == Chunk(s1, empty)
                        w == Writable(socks, io)
                        t1 == WriteLoop(t0, Restrict(order, w), data, io)
                        t2 == ReadLoop(t1, Restrict(order, Readable(socks, io)), io)
                        send_failed == {x \in socks : io[x].w \in {"error", "cut"}}
                    IN TickEnd(p, t2,
                          [rec EXCEPT !.failed = send_failed
                                        \cup {x \in socks : io[x].r = "fail"}],
                          IF observe
                          THEN [p |-> p, w |-> {x \in socks : io[x].w # "no"},
                                data |-> data, got |-> t2.got,
                                send_failed |-> send_failed]
                          ELSE NoSent)

\* the value of the stream's lock while the UpdateThread holds it across steps
UpdateThreadId == -1

\* communicate when a client reported writable stops reading: the sockets
\* are blocking, so once its buffer is full sock.send in _send_data does not
\* return and the tick waits there with the stream's lock held. The write
\* loop has served the writable sockets listed before that one. (If the
\* client reads again or disconnects, the tick ends as in communicate: a
\* send to a client that has disconnected fails instead of waiting.)
communicate_blocks(p) ==
    LET s == process_streams[p]
        s1 == HealthCheck(s, "ok")
        socks == s1.sockets
        t0 == [s |-> s1, closed |-> {}, exited |-> FALSE,
               got |-> [x \in socks |-> [data |-> NoData, sent |-> "none"]]]
    IN /\ TickStart(s)
       /\ \A x \in socks : sock_open[x]
       /\ \E order \in Orders(socks) :
          \E io \in [socks -> {c \in IOChoices(FALSE) : c.r = "no"}] :
          \E k \in DOMAIN Restrict(order, Writable(socks, io)) :
             LET w == Restrict(order, Writable(socks, io))
                 t1 == WriteLoop(t0, SubSeq(w, 1, k - 1), Chunk(s1, FALSE), io)
             IN /\ w[k] \notin peer_gone
                /\ process_streams' = [process_streams EXCEPT ![p] =
                       [t1.s EXCEPT !.lock = UpdateThreadId, !.ut_pc = "send"]]
                /\ sock_open' = [x \in Requests |-> sock_open[x] /\ x \notin t1.closed]
                /\ last' = [TickRecord(p, s, s1, "blocked") EXCEPT
                               !.failed = t1.closed]
       /\ sent' = NoSent
       /\ UNCHANGED ssdp
       /\ UNCHANGED peer_gone
       /\ resp' = NoResponse
       /\ UNCHANGED <<bridges, encoders, streams, rpc, rpath, rstream>>

\* communicate when Popen raises: the lock is released, the exception ends
\* the UpdateThread
communicate_raises(p) ==
    LET s == process_streams[p]
    IN /\ TickStart(s)
       /\ Spawns(s)
       /\ \E outcome \in {"recorder_fails", "encoder_fails"} :
            LET s1 == HealthCheck(s, outcome)
            IN /\ process_streams' = [process_streams EXCEPT ![p] =
                                         [s1 EXCEPT !.ut_pc = "dead"]]
               /\ last' = TickRecord(p, s, s1, "raised")
       /\ sent' = NoSent
       /\ UNCHANGED ssdp
       /\ UNCHANGED peer_gone
       /\ resp' = NoResponse
       /\ UNCHANGED <<bridges, encoders, streams, rpc, rpath, rstream, sock_open>>

\* ------------------------------------------------------------- Next

ServerBridges == << [short_name |-> <<"a">>], [short_name |-> <<"m">>] >>
ServerEncoders == << [suffix |-> <<"m">>, mime_type |-> "audio/mpeg"] >>

\* One ProcessStream from the moment get_stream has constructed and stored
\* it for the GET of thread 1: every later get_stream of its path finds it.
Init ==
    /\ bridges = ServerBridges
    /\ encoders = ServerEncoders
    /\ streams = [q \in {StreamPath} |-> 1]
    /\ process_streams = << NewProcessStream(StreamPath) >>
    /\ rpc = [r \in Requests |-> IF r = 1 THEN "register" ELSE "idle"]
    /\ rpath = [r \in Requests |-> <<>>]
    /\ rstream = [r \in Requests |-> IF r = 1 THEN 1 ELSE 0]
    /\ sock_open = [r \in Requests |-> TRUE]
    /\ resp = NoResponse
    /\ last = NoTick
    /\ sent = NoSent
    /\ ssdp = NoSsdp
    /\ peer_gone = {}

Next ==
    \/ \E r \in Requests : do_GET(r, {StreamPath})
    \/ \E r \in Requests : get_stream(r)
    \/ \E r \in Requests : register(r)
    \/ \E r \in Requests : register_finish(r)
    \/ \E r \in Requests : keep_connection_alive(r)
    \/ \E r \in Requests : accept(r)
    \/ \E p \in DOMAIN process_streams : process_exit(p)
    \/ \E p \in DOMAIN process_streams : run_paused(p)
    \/ \E p \in DOMAIN process_streams : run_acquire(p)
    \/ \E p \in DOMAIN process_streams : communicate(p, FALSE)
    \/ \E p \in DOMAIN process_streams : communicate_blocks(p)
    \/ \E p \in DOMAIN process_streams : communicate_raises(p)

Spec == Init /\ [][Next]_vars

\* the client of a registered connection closes its end: from then on the
\* socket is readable and recv on it returns no bytes or fails. (A disconnect
\* while a tick waits in send is left out: it would end that send.)
peer_disconnect(r) ==
    /\ r \in Tracked
    /\ sock_open[r]
    /\ r \notin peer_gone
    /\ \A p \in DOMAIN process_streams : process_streams[p].ut_pc # "send"
    /\ peer_gone' = peer_gone \cup {r}
    /\ resp' = NoResponse
    /\ last' = NoTick
    /\ sent' = NoSent
    /\ UNCHANGED ssdp
    /\ UNCHANGED <<bridges, encoders, streams, process_streams, rpc, rpath,
                   rstream, sock_open>>

\* one pass of UpdateThread.run through communicate, however it ends
tick(p) ==
    \/ communicate(p, FALSE)
    \/ communicate_blocks(p)
    \/ communicate_raises(p)

NextLive ==
    \/ Next
    \/ \E r \in Requests : peer_disconnect(r)

\* The stream with clients that disconnect, and every thread of the server
\* scheduled again and again: a thread that can take its next step takes it.
\* Nothing is assumed of the environment (requests, clients, processes).
SpecLive ==
    /\ Init
    /\ [][NextLive]_vars
    /\ WF_vars(\E p \in DOMAIN process_streams : run_paused(p))
    /\ WF_vars(\E p \in DOMAIN process_streams : run_acquire(p))
    /\ WF_vars(\E p \in DOMAIN process_streams : tick(p))
    /\ \A r \in Requests :
          /\ WF_vars(get_stream(r))
          /\ WF_vars(register(r))
          /\ WF_vars(register_finish(r))
          /\ WF_vars(keep_connection_alive(r))

\* The same stream when the interpreter exits: the atexit hook runs once, at
\* any moment, and the threads may go on while it exits.
NextExit ==
    \/ Next
    \/ \E p \in DOMAIN process_streams : shutdown(p)

SpecExit == Init /\ [][NextExit]_vars

\* The same stream with every tick's writes kept in the history: the
\* requests that subscribe to it and its ticks.
NextTick ==
    \/ \E r \in Requests : do_GET(r, {StreamPath})
    \/ \E r \in Requests : get_stream(r)
    \/ \E r \in Requests : register(r)
    \/ \E r \in Requests : register_finish(r)
    \/ \E p \in DOMAIN process_streams : communicate(p, TRUE)

SpecTick == Init /\ [][NextTick]_vars

\* The registry: request threads from an empty StreamManager up to their
\* registration, for paths that resolve to two streams and one that does not.
InitRegistry ==
    /\ bridges = ServerBridges
    /\ encoders = ServerEncoders
    /\ InitCommon

NextRegistry ==
    \/ \E r \in Requests : do_HEAD(r, RegistryPaths)
    \/ \E r \in Requests : do_GET(r, RegistryPaths)
    \/ \E r \in Requests : get_stream(r)
    \/ \E r \in Requests : get_stream_store(r)
    \/ \E r \in Requests : register(r)
    \/ \E r \in Requests : register_finish(r)

SpecRegistry == InitRegistry /\ [][NextRegistry]_vars

\* handle_headers alone: the first request of a server, over every path and
\* every pair of lists
InitHeaders ==
    /\ bridges \in SeqsUpTo(BridgePool, MaxList)
    /\ encoders \in SeqsUpTo(EncoderPool, MaxList)
    /\ InitCommon

NextHeaders ==
    \/ resp = NoResponse /\ do_HEAD(1, AllPaths)
    \/ resp = NoResponse /\ do_GET(1, AllPaths)

SpecHeaders == InitHeaders /\ [][NextHeaders]_vars

\* ------------------------------------------------------------- ssdp
\* pulseaudio_dlna/plugins/dlna/ssdp/__init__.py. A text is a sequence of
\* characters.

MaxLines == 3      \* lines of a header text

HeaderNames == { <<"u", "s", "n">>, <<"U", "S", "N">>, <<"U", "s", "n", " ">>, <<"s", "t">> }
HeaderValues == { <<" ", "u", "u", "i", "d", ":", "1", ":", ":", "x">>,
                  <<"u", "u", "i", "d", ":", "2">>,
                  <<"y", ":", ":", "U", "U", "I", "D", ":", "3", ":", ":", "z", " ">> }

\* str.lower on the letters that occur
lower_char(c) ==
    CASE c = "U" -> "u" [] c = "S" -> "s" [] c = "N" -> "n"
      [] c = "I" -> "i" [] c = "D" -> "d" [] OTHER -> c

lower(s) == [i \in DOMAIN s |-> lower_char(s[i])]

\* str.strip: whitespace off both ends
RECURSIVE strip(_)
strip(s) ==
    IF s = <<>> THEN s
    ELSE IF Head(s) = " " THEN strip(Tail(s))
    ELSE IF s[Len(s)] = " " THEN strip(SubSeq(s, 1, Len(s) - 1))
    ELSE s

\* the positions from i on at which c stands
Positions(s, i, c) == {k \in i..Len(s) : s[k] = c}

\* findall(r"(?P<name>.*?):(?P<value>.*?)\n", header) from position i on: "."
\* matches no newline, so a match lies within one line; the name runs to the
\* line's first ":", the value from there to the newline; a line without ":"
\* and a last line without newline give no match.
RECURSIVE findall_header(_, _)
findall_header(header, i) ==
    IF Positions(header, i, "\n") = {} THEN <<>>
    ELSE LET e == Min(Positions(header, i, "\n"))
             colons == {k \in Positions(header, i, ":") : k < e}
         IN IF colons = {} THEN findall_header(header, e + 1)
            ELSE LET j == Min(colons)
                 IN << <<SubSeq(header, i, j - 1), SubSeq(header, j + 1, e - 1)>> >>
                    \o findall_header(header, e + 1)

\* d[k] = v on a dict kept as the sequence of its items in insertion order:
\* a key already present keeps its place and gets the new value
dict_set(d, k, v) ==
    IF \E n \in DOMAIN d : d[n][1] = k
    THEN [n \in DOMAIN d |-> IF d[n][1] = k THEN <<k, v>> ELSE d[n]]
    ELSE Append(d, <<k, v>>)

\* dict(pairs)
RECURSIVE dict(_, _)
dict(d, pairs) ==
    IF pairs = <<>> THEN d
    ELSE dict(dict_set(d, Head(pairs)[1], Head(pairs)[2]), Tail(pairs))

\* {k.strip().lower(): v.strip() for k, v in items}
RECURSIVE dict_normalised(_, _)
dict_normalised(d, items) ==
    IF items = <<>> THEN d
    ELSE dict_normalised(
             dict_set(d, lower(strip(Head(items)[1])), strip(Head(items)[2])),
             Tail(items))

_get_header_map(header) ==
    dict_normalised(<<>>, dict(<<>>, findall_header(header, 1)))

None == <<>>

\* search("(uuid:.*?)::(.*)", text, IGNORECASE).group(1): the leftmost
\* "uuid:", in any letter case, that has a "::" after it, up to the first
\* such "::"; None without a match
search_uuid(text) ==
    LET ends(i) == {j \in (i + 5)..(Len(text) - 1) :
                       text[j] = ":" /\ text[j + 1] = ":"}
        starts == {i \in 1..(Len(text) - 6) :
                      /\ lower(SubSeq(text, i, i + 4)) = <<"u", "u", "i", "d", ":">>
                      /\ ends(i) # {}}
    IN IF starts = {} THEN None
       ELSE SubSeq(text, Min(starts), Min(ends(Min(starts))) - 1)

_get_device_id(header) ==
    IF \E n \in DOMAIN header : header[n][1] = <<"u", "s", "n">>
    THEN LET n == CHOOSE n \in DOMAIN header : header[n][1] = <<"u", "s", "n">>
         IN search_uuid(header[n][2])
    ELSE None

\* the text of the lines "name:value\n"
RECURSIVE HeaderText(_)
HeaderText(lines) ==
    IF lines = <<>> THEN <<>>
    ELSE Head(lines)[1] \o <<":">> \o Head(lines)[2] \o <<"\n">>
         \o HeaderText(Tail(lines))

InitSsdp ==
    /\ bridges = ServerBridges
    /\ encoders = ServerEncoders
    /\ InitCommon

\* a discovery answer arrives and its header is parsed
parse_header ==
    /\ ssdp.called = "none"
    /\ \E lines \in SeqsUpTo(HeaderNames \X HeaderValues, MaxLines) :
          ssdp' = [called |-> "map", lines |-> lines,
                   header |-> HeaderText(lines),
                   map |-> _get_header_map(HeaderText(lines)),
                   id |-> None]
    /\ UNCHANGED <<bridges, encoders, streams, process_streams, rpc, rpath,
                   rstream, sock_open, resp, last, sent, peer_gone>>

\* the device id is taken from the parsed header
device_id ==
    /\ ssdp.called = "map"
    /\ ssdp' = [ssdp EXCEPT !.called = "id", !.id = _get_device_id(ssdp.map)]
    /\ UNCHANGED <<bridges, encoders, streams, process_streams, rpc, rpath,
                   rstream, sock_open, resp, last, sent, peer_gone>>

NextSsdp ==
    \/ parse_header
    \/ device_id

SpecSsdp == InitSsdp /\ [][NextSsdp]_vars

\* ------------------------------------------------------------ claims

\* both handles are set and neither process has exited
Running(s) == do_processes_exist(s) /\ do_processes_respond(s)

\* C1: after a tick that did I/O, the sockets still tracked are exactly those
\* tracked at its start whose own write and read did not fail; the failing
\* ones are closed, the others are still open, in whatever order select
\* listed them and however many failed.
C1_OnlyFailingSocketsDropped ==
    last.kind = "io" =>
        /\ process_streams[last.p].sockets = last.tracked \ last.failed
        /\ \A x \in last.failed : ~sock_open[x]
        /\ \A x \in last.tracked \ last.failed : sock_open[x]

\* a tick in which one socket failed and a sibling did not
C1_Witness ==
    /\ last.kind = "io"
    /\ last.failed # {}
    /\ last.tracked \ last.failed # {}
    /\ process_streams[last.p].sockets = last.tracked \ last.failed

\* C2 (as stated): in a tick every socket reported writable has received the
\* whole chunk read in that tick, and a socket not reported writable nothing.
C2_EveryWritableSocketGetsTheChunk ==
    sent.p # 0 =>
        /\ \A x \in sent.w : sent.got[x] = [data |-> sent.data, sent |-> "all"]
        /\ \A x \in DOMAIN sent.got \ sent.w : sent.got[x].sent = "none"

\* C2 (amended): every writable socket whose send does not raise has received
\* the whole chunk read in that tick, the same for all of them; a writable
\* socket whose send raises has received none or only a part of that chunk
\* and is unregistered and closed; a socket not reported writable has
\* received nothing.
C2_WritableSocketsGetTheChunkUnlessSendFails ==
    sent.p # 0 =>
        /\ \A x \in sent.w \ sent.send_failed :
              sent.got[x] = [data |-> sent.data, sent |-> "all"]
        /\ \A x \in sent.send_failed :
              /\ sent.got[x].data = sent.data
              /\ sent.got[x].sent \in {"none", "part"}
              /\ x \notin process_streams[sent.p].sockets
              /\ ~sock_open[x]
        /\ \A x \in DOMAIN sent.got \ sent.w :
              sent.got[x] = [data |-> NoData, sent |-> "none"]

\* a tick that wrote a chunk to one socket while the send to another raised
C2_Witness ==
    /\ sent.p # 0
    /\ ~sent.data.empty
    /\ sent.send_failed # {}
    /\ \E x \in sent.w \ sent.send_failed : sent.got[x].sent = "all"

\* C3: a pipeline whose client_count is zero has neither process running.
C3_NoProcessesWithoutClients ==
    \A p \in DOMAIN process_streams :
        process_streams[p].client_count = 0 =>
            ~process_streams[p].rec_alive /\ ~process_streams[p].enc_alive

\* C4 (as stated): the first tick that completes after a register took
\* client_count from zero leaves both processes running.
C4_FirstTickLeavesProcessesRunning ==
    (last.kind \in {"io", "select_error"} /\ last.armed) =>
        Running(process_streams[last.p])

\* C4 (amended): the first tick that completes after a register took
\* client_count from zero leaves both processes running if a client is still
\* subscribed when it ends; a tick that unregisters the last client ends with
\* the pair it spawned killed.
C4_FirstTickLeavesProcessesRunningForClients ==
    (last.kind \in {"io", "select_error"} /\ last.armed) =>
        IF process_streams[last.p].client_count > 0
        THEN Running(process_streams[last.p])
        ELSE ~process_streams[last.p].rec_alive /\ ~process_streams[last.p].enc_alive

\* the first tick after a re-subscription found the killed pair of the
\* previous subscription and replaced it
C4_Witness ==
    /\ last.kind = "io"
    /\ last.armed
    /\ last.restart
    /\ process_streams[last.p].client_count > 0
    /\ Running(process_streams[last.p])
    /\ process_streams[last.p].encoder_process # last.old_enc

C6_RegistrationSucceeds ==
    \A r \in Requests : rpc[r] # "raised"

\* C7: whenever the stream's lock is free, client_count is the number of
\* tracked sockets.
C7_CountMatchesSockets ==
    \A p \in DOMAIN process_streams :
        process_streams[p].lock = 0 =>
            process_streams[p].client_count = Cardinality(process_streams[p].sockets)

\* a register has ended by raising, the lock is free again and a socket is
\* tracked and counted
C7_Witness ==
    \E r \in Requests :
        /\ rpc[r] = "raised"
        /\ process_streams[rstream[r]].lock = 0
        /\ r \in process_streams[rstream[r]].sockets
        /\ process_streams[rstream[r]].client_count = Cardinality(process_streams[rstream[r]].sockets)

\* C8: handle_headers answers 200 exactly when the path is "/", the short
\* name of a known device, ".", the suffix of a known encoder; it then returns
\* the first device of that name and the first encoder of that suffix and
\* sends that encoder's mime_type; otherwise it answers 404 and returns
\* neither.
C8_HeadersMatchNameDotSuffix ==
    resp.r # 0 =>
        LET forms == {f \in (1..Len(bridges)) \X (1..Len(encoders)) :
                         resp.path = <<"/">> \o bridges[f[1]].short_name
                                     \o <<".">> \o encoders[f[2]].suffix}
        IN IF forms # {}
           THEN /\ resp.status = 200
                /\ <<resp.bridge, resp.encoder>> \in forms
                /\ \A f \in forms : resp.bridge <= f[1] /\ resp.encoder <= f[2]
                /\ resp.content_type = encoders[resp.encoder].mime_type
           ELSE /\ resp.status = 404
                /\ resp.bridge = 0
                /\ resp.encoder = 0

\* C9: a HEAD request and a GET answered 404 change neither the registry nor
\* any stream; the registration of a GET that resolved adds the thread's own
\* socket, which was not tracked, to the stream the registry holds under the
\* request's path, and changes no other stream.
C9_RequestsTouchOnlyTheirStream ==
    [][/\ (resp'.r # 0 /\ (resp'.method = "HEAD" \/ resp'.status = 404)) =>
             UNCHANGED <<streams, process_streams>>
       /\ \A r \in Requests :
             (rpc[r] = "register" /\ rpc'[r] = "registering") =>
                LET p == rstream[r]
                    path == process_streams[p].path
                IN /\ path \in DOMAIN streams
                   /\ streams[path] = p
                   /\ r \notin Tracked
                   /\ process_streams'[p].sockets = process_streams[p].sockets \cup {r}
                   /\ \A q \in DOMAIN process_streams \ {p} :
                         process_streams'[q] = process_streams[q]]_vars

\* C10: no two streams were constructed for one path, and the stream every
\* get_stream has returned is the one the registry holds under its path.
C10_OnePipelinePerPath ==
    /\ \A i, j \in DOMAIN process_streams :
          process_streams[i].path = process_streams[j].path => i = j
    /\ \A r \in Requests :
          rstream[r] # 0 =>
             streams[process_streams[rstream[r]].path] = rstream[r]

\* C11: every socket is tracked by at most one stream, no close() is ever
\* called on a socket that is already closed, whether by a tick's unregister
\* or by the atexit hook, and a registered socket that is no longer tracked
\* is closed.
C11_SocketsTrackedOnceClosedOnce ==
    /\ \A r \in Requests :
          Cardinality({p \in DOMAIN process_streams :
                          r \in process_streams[p].sockets}) <= 1
    /\ last.closed_again = {}
    /\ \A r \in Requests :
          (rpc[r] = "alive" /\ r \notin Tracked) => ~sock_open[r]

\* C19: when the atexit hook of a stream has run, every socket the stream
\* tracks is closed and neither its recorder nor its encoder is running.
C19_HookClosesSocketsAndKillsProcesses ==
    last.kind = "shutdown" =>
        /\ \A x \in process_streams[last.p].sockets : ~sock_open[x]
        /\ ~process_streams[last.p].rec_alive
        /\ ~process_streams[last.p].enc_alive

\* C12: a register called with a socket its stream already tracks changes
\* neither the registry nor the stream (sockets, client_count, process
\* handles, UpdateThread state) and ends as an error of that call, not in
\* sys.exit.
C12_DuplicateRegisterIsRejected ==
    [][\A r \in Requests :
          (/\ rpc[r] = "register"
           /\ r \in process_streams[rstream[r]].sockets
           /\ rpc'[r] # "register") =>
             /\ UNCHANGED <<streams, process_streams>>
             /\ rpc'[r] # "sys_exit"]_vars

\* C13: a tick in which spawning fails releases the stream's lock and leaves
\* the UpdateThread alive at the head of its loop, from where a later tick
\* tries the spawn again.
C13_SpawnFailureIsRetryable ==
    last.kind = "raised" =>
        /\ process_streams[last.p].lock = 0
        /\ process_streams[last.p].ut_pc = "test"

\* C16: every tick starts with client_count positive.
C16_TicksOnlyWithClients ==
    last.kind \in {"io", "select_error", "raised"} => last.had_clients

\* C17: when a tick that started with clients has ended and released the
\* lock, both process handles are set if and only if client_count is still
\* positive; after the teardown for the last client they are None again.
C17_HandlesSetOnlyWithClients ==
    (last.kind \in {"io", "select_error"} /\ last.had_clients) =>
        (do_processes_exist(process_streams[last.p])
            <=> process_streams[last.p].client_count > 0)

\* C20: resume releases the UpdateThread's lock only while it is held: no
\* step takes is_running from False to True with that lock free.
C20_GateReleasedOnlyWhileHeld ==
    [][\A p \in DOMAIN process_streams :
          (~process_streams[p].is_running /\ process_streams'[p].is_running) =>
             process_streams[p].ut_lock]_vars

\* C14: no tick waits on a client's socket: the UpdateThread is never inside
\* a send that does not return, holding the stream's lock.
C14_TickNeverWaitsOnAClient ==
    \A p \in DOMAIN process_streams :
        ~(process_streams[p].ut_pc = "send"
            /\ process_streams[p].lock = UpdateThreadId)

\* C15: the map _get_header_map makes of the lines "name:value\n" has as
\* keys the trimmed, lower-cased names, each once and each with the trimmed
\* value of a line of that name, and is the same map when the names are
\* written in lower case; _get_device_id returns the leftmost "uuid:" (any
\* letter case) of the "usn" value that has a "::" after it, up to the first
\* such "::", and None when there is no "usn" key or no such match.
C15_HeaderMapIgnoresCaseAndDeviceIdIsUuid ==
    ssdp.called # "none" =>
        LET lines == ssdp.lines
            m == ssdp.map
            norm(n) == lower(strip(lines[n][1]))
            lowered == [n \in DOMAIN lines |-> <<lower(lines[n][1]), lines[n][2]>>]
            m_lowered == _get_header_map(HeaderText(lowered))
            usn == {n \in DOMAIN m : m[n][1] = <<"u", "s", "n">>}
            v == m[CHOOSE n \in usn : TRUE][2]
            uuid_at(i) == i + 4 <= Len(v)
                          /\ lower(SubSeq(v, i, i + 4)) = <<"u", "u", "i", "d", ":">>
            sep_at(j) == j + 1 <= Len(v) /\ v[j] = ":" /\ v[j + 1] = ":"
            match(i, j) == uuid_at(i) /\ j >= i + 5 /\ sep_at(j)
        IN /\ {m[n][1] : n \in DOMAIN m} = {norm(n) : n \in DOMAIN lines}
           /\ \A a, b \in DOMAIN m : m[a][1] = m[b][1] => a = b
           /\ \A n \in DOMAIN m : \E l \in DOMAIN lines :
                 norm(l) = m[n][1] /\ m[n][2] = strip(lines[l][2])
           /\ {m[n] : n \in DOMAIN m} = {m_lowered[n] : n \in DOMAIN m_lowered}
           /\ ssdp.called = "id" =>
                 IF usn = {} \/ ~\E i, j \in 1..Len(v) : match(i, j)
                 THEN ssdp.id = None
                 ELSE \E i, j \in 1..Len(v) :
                         /\ match(i, j)
                         /\ ssdp.id = SubSeq(v, i, j - 1)
                         /\ \A k \in (i + 5)..(j - 1) : ~sep_at(k)
                         /\ \A h \in 1..(i - 1) : \A k \in 1..Len(v) : ~match(h, k)

\* C18: once the peer of a registered socket has disconnected, a tick
\* eventually unregisters and closes that socket, and the request thread
\* waiting in keep_connection_alive on a closed socket eventually leaves its
\* loop; the thread leaves the loop only when its socket is closed, and its
\* step neither unregisters nor closes anything.
C18_DisconnectedPeerIsDroppedAndThreadLeaves ==
    /\ \A r \in Requests :
          /\ (r \in peer_gone /\ r \in Tracked /\ sock_open[r])
                 ~> (r \notin Tracked /\ ~sock_open[r])
          /\ (rpc[r] = "alive" /\ ~sock_open[r]) ~> (rpc[r] # "alive")
    /\ [][\A r \in Requests :
             rpc[r] = "alive" /\ rpc'[r] # "alive" =>
                 /\ ~sock_open[r]
                 /\ process_streams' = process_streams
                 /\ \A x \in Requests : sock_open[x] => sock_open'[x]]_vars

====
